---------------------------- MODULE Spec2Model ----------------------------
(***************************************************************************)
(* CloudGuard alert lifecycle engine (AlertManager) over its MongoDB       *)
(* backed AlertRepository and AuditLogManager.                             *)
(*                                                                         *)
(* Every `await` of the JavaScript source is a point where another request *)
(* may run, so each engine operation is modelled as the sequence of its    *)
(* synchronous blocks: one action per block, ending at the database call   *)
(* the block awaits.  A database call either takes effect or throws.       *)
(***************************************************************************)
EXTENDS Integers, Sequences, FiniteSets, TLC

VARIABLES
    alerts,   \* the `alerts` collection: documents in insertion order
    audit,    \* the `audit_logs` collection: entries in insertion order
    reqs,     \* the in-flight or last finished engine call of each request slot
    clock,    \* Date.now(), in milliseconds
    calls,    \* number of engine calls started so far
    issued    \* history: every id _generateAlertId has returned

vars == <<alerts, audit, reqs, clock, calls, issued>>

\* ---------------------------------------------------------------- bounds

MaxCalls == 1      \* engine calls per behaviour of Spec
MaxClock == 2      \* milliseconds the clock can show

\* engine calls per behaviour of SpecLifecycle: one createAlert, the three
\* updates of the chain, and one update more on the Resolved alert
MaxChain == 5

\* engine calls per behaviour of SpecConcurrent
MaxConcurrentCalls == 3

\* engine calls per behaviour of SpecDelete
MaxDeleteCalls == 4

\* engine calls per behaviour of SpecStats
MaxStatsCalls == 3

\* engine calls per behaviour of SpecQuery
MaxQueryCalls == 3

\* engine calls per behaviour of SpecRace
MaxRaceCalls == 2
MaxEngineCalls == 2

\* Math.floor(Math.random() * 10000) ranges over 0 .. RandomRange - 1
RandomRange == 10000

\* the random draws the model explores: both ends of that range
RandomSample == {0, RandomRange - 1}

\* concurrent HTTP requests being served
Requests == {"r1", "r2"}

\* ------------------------------------------------- JavaScript values

\* undefined / null: a property that is missing from the request
Undefined == "<undefined>"

\* !v for a string-or-undefined value
Falsy(v) == v = Undefined \/ v = ""

Whitespace == {" ", "\t", "\n", "\r"}

UpperCase == "ABCDEFGHIJKLMNOPQRSTUVWXYZ"

LowerCase == "abcdefghijklmnopqrstuvwxyz"

\* one character, lower-cased
LowerChar(c) ==
    IF \E i \in 1..26 : SubSeq(UpperCase, i, i) = c
    THEN LET i == CHOOSE k \in 1..26 : SubSeq(UpperCase, k, k) = c
         IN  SubSeq(LowerCase, i, i)
    ELSE c

RECURSIVE toLowerCase(_)
\* String.prototype.toLowerCase
toLowerCase(s) ==
    IF Len(s) = 0 THEN ""
    ELSE LowerChar(SubSeq(s, 1, 1)) \o toLowerCase(SubSeq(s, 2, Len(s)))

RECURSIVE trimStart(_)
trimStart(s) ==
    IF Len(s) > 0 /\ SubSeq(s, 1, 1) \in Whitespace
    THEN trimStart(SubSeq(s, 2, Len(s)))
    ELSE s

RECURSIVE trimEnd(_)
trimEnd(s) ==
    IF Len(s) > 0 /\ SubSeq(s, Len(s), Len(s)) \in Whitespace
    THEN trimEnd(SubSeq(s, 1, Len(s) - 1))
    ELSE s

\* String.prototype.trim
trim(s) == trimEnd(trimStart(s))

\* String.prototype.includes: k occurs in s as a substring
includes(s, k) ==
    \E i \in 1..(Len(s) - Len(k) + 1) : SubSeq(s, i, i + Len(k) - 1) = k

\* --------------------------------------------- AlertManager constructor

Statuses == {"New", "Acknowledged", "In-Progress", "Resolved"}

\* a transition table in which a Resolved alert can be reopened
validTransitions_resolvedReopens ==
    [s \in Statuses |->
        CASE s = "New"          -> {"Acknowledged"}
          [] s = "Acknowledged" -> {"In-Progress"}
          [] s = "In-Progress"  -> {"Resolved"}
          [] s = "Resolved"     -> {"New"}]

\* this.validTransitions
validTransitions ==
    [s \in Statuses |->
        CASE s = "New"          -> {"Acknowledged"}
          [] s = "Acknowledged" -> {"In-Progress"}
          [] s = "In-Progress"  -> {"Resolved"}
          [] s = "Resolved"     -> {}]

\* this.severityLevels
severityLevels == {"High", "Medium", "Low"}

\* this.categories
categories == {"CVE", "S3", "IAM", "Network", "Activity"}

highSeverityKeywords ==
    {"critical", "urgent", "severe", "exploit", "vulnerability",
     "breach", "compromise", "unauthorized access", "data leak",
     "malware", "ransomware", "public", "exposed"}

lowSeverityKeywords ==
    {"informational", "minor", "warning", "recommendation",
     "best practice", "configuration", "versioning"}


\* ------------------------------------------- AlertManager private helpers

\* _validateFinding with the description tested without .trim()
_validateFinding_untrimmed(finding) ==
    IF ~finding.given THEN "Finding object is required"
    ELSE IF Falsy(finding.category) THEN "Finding category is required"
    ELSE IF finding.category \notin categories
         THEN "Invalid category: " \o finding.category
    ELSE IF Falsy(finding.description)
         THEN "Finding description is required"
    ELSE ""

\* _validateFinding: the message of the Error it throws, "" when it returns
_validateFinding(finding) ==
    IF ~finding.given THEN "Finding object is required"
    ELSE IF Falsy(finding.category) THEN "Finding category is required"
    ELSE IF finding.category \notin categories
         THEN "Invalid category: " \o finding.category
    ELSE IF Falsy(finding.description) \/ trim(finding.description) = ""
         THEN "Finding description is required"
    ELSE ""

\* _validateAlert: the message of the Error it throws, "" when it returns
_validateAlert(alert) ==
    IF Falsy(alert.id) THEN "Alert ID is required"
    ELSE IF alert.severity \notin severityLevels
         THEN "Invalid severity: " \o alert.severity
    ELSE IF alert.category \notin categories
         THEN "Invalid category: " \o alert.category
    ELSE IF Falsy(alert.status) THEN "Alert status is required"
    ELSE IF Falsy(alert.description) THEN "Alert description is required"
    ELSE ""

\* _classifySeverity with the two keyword scans in the other order
_classifySeverity_lowFirst(finding) ==
    IF ~Falsy(finding.severity) /\ finding.severity \in severityLevels
    THEN finding.severity
    ELSE LET description == toLowerCase(finding.description) IN
         IF \E keyword \in lowSeverityKeywords : includes(description, keyword)
         THEN "Low"
         ELSE IF \E keyword \in highSeverityKeywords : includes(description, keyword)
         THEN "High"
         ELSE "Medium"

\* _classifySeverity
_classifySeverity(finding) ==
    IF ~Falsy(finding.severity) /\ finding.severity \in severityLevels
    THEN finding.severity
    ELSE LET description == toLowerCase(finding.description) IN
         IF \E keyword \in highSeverityKeywords : includes(description, keyword)
         THEN "High"
         ELSE IF \E keyword \in lowSeverityKeywords : includes(description, keyword)
         THEN "Low"
         ELSE "Medium"

\* _isValidTransition accepting every status the table knows
_isValidTransition_anyKnownStatus(currentStatus, newStatus) ==
    IF currentStatus \notin DOMAIN validTransitions THEN FALSE
    ELSE newStatus \in DOMAIN validTransitions

\* _isValidTransition
_isValidTransition(currentStatus, newStatus) ==
    IF currentStatus \notin DOMAIN validTransitions THEN FALSE
    ELSE newStatus \in validTransitions[currentStatus]

\* _generateAlertId, for Date.now() = timestamp and the random draw
_generateAlertId(timestamp, random) ==
    "ALT-" \o ToString(timestamp) \o "-" \o ToString(random)

\* ---------------------------------------------------------- Error messages

AlertIdRequired == "Alert ID is required"

NewStatusRequired == "New status is required"

NotFound(alertId) == "Alert with ID " \o alertId \o " not found"

\* validTransitions[s].join(', '): every row holds at most one status
JoinRow(s) ==
    IF validTransitions[s] = {} THEN ""
    ELSE CHOOSE t \in validTransitions[s] : TRUE

InvalidTransition(currentStatus, newStatus) ==
    "Invalid state transition: " \o currentStatus \o " -> " \o newStatus
    \o ". Valid transitions from " \o currentStatus \o ": " \o JoinRow(currentStatus)

\* what the MongoDB driver throws when a collection call fails
PersistenceError == "MongoError"

\* --------------------------------------------------------- AlertRepository

\* positions of the documents matching { id: alertId }
Matching(coll, alertId) == {i \in DOMAIN coll : coll[i].id = alertId}

First(S) == CHOOSE i \in S : \A j \in S : i <= j

\* collection.findOne({ id: alertId }): <<document>>, or <<>> for null
findById(coll, alertId) ==
    IF Matching(coll, alertId) = {} THEN <<>>
    ELSE <<coll[First(Matching(coll, alertId))]>>

\* the properties a filter can carry
FilterFields == {"severity", "status", "category"}

\* a query built from the severity property alone
queryOf_severityOnly(filter) ==
    [k \in {f \in {"severity"} : ~Falsy(filter[f])} |-> filter[k]]

\* the query findAll builds: one condition per filter property that is truthy
queryOf(filter) ==
    [k \in {f \in FilterFields : ~Falsy(filter[f])} |-> filter[k]]

\* collection.find(query).toArray()
find(coll, query) ==
    LET Selected(doc) == \A k \in DOMAIN query : doc[k] = query[k]
    IN SelectSeq(coll, Selected)

\* AlertRepository.findAll
findAll(coll, filter) == find(coll, queryOf(filter))

\* collection.insertOne(alert)
save(coll, alert) == Append(coll, alert)

\* an updateOne whose $set also overwrites createdAt
updateOne_alsoCreatedAt(coll, alertId, status, updatedAt) ==
    IF Matching(coll, alertId) = {} THEN coll
    ELSE LET i == First(Matching(coll, alertId)) IN
         [coll EXCEPT ![i] = [@ EXCEPT !.status = status, !.updatedAt = updatedAt,
                                       !.createdAt = updatedAt]]

\* an updateOne whose $set leaves the status out
updateOne_updatedAtOnly(coll, alertId, status, updatedAt) ==
    IF Matching(coll, alertId) = {} THEN coll
    ELSE LET i == First(Matching(coll, alertId)) IN
         [coll EXCEPT ![i] = [@ EXCEPT !.updatedAt = updatedAt]]

\* collection.updateOne({ id }, { $set: { status, updatedAt } })
updateOne(coll, alertId, status, updatedAt) ==
    IF Matching(coll, alertId) = {} THEN coll
    ELSE LET i == First(Matching(coll, alertId)) IN
         [coll EXCEPT ![i] = [@ EXCEPT !.status = status, !.updatedAt = updatedAt]]

\* collection.deleteOne({ id: alertId })
deleteOne(coll, alertId) ==
    IF Matching(coll, alertId) = {} THEN coll
    ELSE LET i == First(Matching(coll, alertId)) IN
         SubSeq(coll, 1, i - 1) \o SubSeq(coll, i + 1, Len(coll))

\* --------------------------------------------------------- AuditLogManager

\* an audit entry; `call` is a history field naming the engine call that wrote it
Entry(action, call, alertId, oldStatus, newStatus, error) ==
    [action |-> action, call |-> call, alertId |-> alertId,
     oldStatus |-> oldStatus, newStatus |-> newStatus, error |-> error]

\* AuditLogManager.log: insertOne, whose failure is caught and only printed
log(coll, logEntry, inserted) ==
    IF inserted THEN Append(coll, logEntry) ELSE coll


\* ------------------------------------------------------------ engine calls

Finding(category, severity, description) ==
    [given |-> TRUE, category |-> category, severity |-> severity,
     description |-> description]

\* createAlert() called with no finding at all
NoFinding ==
    [given |-> FALSE, category |-> Undefined, severity |-> Undefined,
     description |-> Undefined]

\* the finding behind the alert an earlier request may have left in the store
SeedFinding == Finding("Network", Undefined, "Port scan detected")

\* the findings the requests of Spec post
Findings ==
    {Finding("CVE", "High", "Routine scan result"),
     Finding("S3", Undefined, "Minor configuration recommendation"),
     Finding("Firewall", "Low", "Critical remote exploit found"),
     Finding("IAM", Undefined, "   ")}

\* what a request body can hold in its category, severity and description
CategoryInputs == categories \cup {"Firewall", "cve", "", Undefined}

SeverityInputs == severityLevels \cup {"Critical", "high", "", Undefined}

DescriptionInputs ==
    {"Critical remote exploit found", "Minor configuration recommendation",
     "Public bucket without versioning", "URGENT: MALWARE on host",
     "Best Practice reminder", "Port scan detected", "  minor  ",
     "", "   ", " \t\n", Undefined}

\* the findings the requests of SpecCreate post
FindingInputs ==
    {NoFinding} \cup
    {Finding(c, s, d) : c \in CategoryInputs, s \in SeverityInputs,
                        d \in DescriptionInputs}

\* every finding some request of the model posts
PostedFindings == Findings \cup FindingInputs \cup {SeedFinding}

\* the status names the requests ask for: the four statuses, an unknown name,
\* and a missing `status` property
StatusInputs == Statuses \cup {"Closed", Undefined}

\* the id of the alert an earlier request may have left in the store, made at
\* millisecond 0; the clock of a behaviour starts after it
SeedId == _generateAlertId(0, 0)

\* an id no alert ever gets
UnknownId == _generateAlertId(0, 1)

\* the ids the requests name: every id handed out so far, an unknown id, none
IdInputs == issued \cup {UnknownId, Undefined}

\* the (id, status) pairs updateAlertStatus is called with: every status name
\* for every id, and one call that names no id
UpdateInputs ==
    ((issued \cup {UnknownId}) \X StatusInputs) \cup {<<Undefined, "Acknowledged">>}

\* a filter as GET / builds it: all three properties, undefined when the
\* query string lacks them
Filter(severity, status, category) ==
    [severity |-> severity, status |-> status, category |-> category]

\* getAlerts() called without a filter: the default {}
NoFilter == Filter(Undefined, Undefined, Undefined)

\* the filters the requests pass: legal values, a name outside the
\* enumeration, an empty value, and absent properties
FilterInputs ==
    {Filter(v, s, c) : v \in {Undefined, "Medium", "Critical", ""},
                       s \in {Undefined, "New", "Resolved"},
                       c \in {Undefined, "Network", "CVE"}}

\* a request slot that has made no call yet; `matched` is a history field: it is
\* FALSE once the call's updateOne has run and matched no document (the
\* matchedCount of the result, which updateStatus does not look at)
Idle ==
    [op |-> "none", pc |-> "idle", call |-> 0, finding |-> NoFinding,
     alertId |-> Undefined, newStatus |-> Undefined, filter |-> NoFilter,
     alert |-> <<>>, currentAlert |-> <<>>, updatedAt |-> 0, ret |-> <<>>,
     error |-> "", audited |-> TRUE, matched |-> TRUE]

\* the locals of a call that has just been entered
Enter(op, finding, alertId, newStatus) ==
    [Idle EXCEPT !.op = op, !.call = calls + 1, !.finding = finding,
                 !.alertId = alertId, !.newStatus = newStatus]

\* a slot takes a new call when its last one has returned or thrown
CanEnter(r) ==
    reqs[r].pc \in {"idle", "returned", "raised"}

\* control passes to the catch block with `error`
Throw(req, error) == [req EXCEPT !.pc = "catch", !.error = error]

\* the clock moves on
Tick ==
    /\ clock < MaxClock
    /\ clock' = clock + 1
    /\ UNCHANGED <<alerts, audit, reqs, calls, issued>>

\* ------------------------------------------------------------- createAlert

\* const severity = this._classifySeverity(finding), tabulated once over the
\* findings the requests post
severityOf ==
    [finding \in {f \in PostedFindings : _validateFinding(f) = ""} |->
        _classifySeverity(finding)]

\* the alert object with the status spelled as docs/design.md spells it
NewAlert_upperCaseStatus(finding, id, now) ==
    [id |-> id, severity |-> severityOf[finding],
     category |-> finding.category, status |-> "NEW",
     description |-> finding.description, timestamp |-> now,
     createdAt |-> now, updatedAt |-> now]

\* the alert object createAlert builds
NewAlert(finding, id, now) ==
    [id |-> id, severity |-> severityOf[finding],
     category |-> finding.category, status |-> "New",
     description |-> finding.description, timestamp |-> now,
     createdAt |-> now, updatedAt |-> now]

\* createAlert up to its first await: validate, classify, build, call save
createAlert_enter(r, finding, random) ==
    /\ CanEnter(r)
    /\ calls' = calls + 1
    /\ LET req == Enter("createAlert", finding, Undefined, Undefined)
           id  == _generateAlertId(clock, random)
       IN IF _validateFinding(finding) # ""
          THEN /\ reqs' = [reqs EXCEPT ![r] = Throw(req, _validateFinding(finding))]
               /\ UNCHANGED issued
          ELSE LET alert == NewAlert(finding, id, clock) IN
               /\ issued' = issued \cup {id}
               /\ reqs' = [reqs EXCEPT ![r] =
                    IF _validateAlert(alert) # ""
                    THEN Throw(req, _validateAlert(alert))
                    ELSE [req EXCEPT !.pc = "save", !.alert = <<alert>>]]
    /\ UNCHANGED <<alerts, audit, clock>>

\* alertRepository.save settles, then the ALERT_CREATED entry is handed to log
createAlert_save(r, stored) ==
    /\ reqs[r].op = "createAlert" /\ reqs[r].pc = "save"
    /\ IF stored
       THEN /\ alerts' = save(alerts, reqs[r].alert[1])
            /\ reqs' = [reqs EXCEPT ![r].pc = "log", ![r].ret = reqs[r].alert]
       ELSE /\ reqs' = [reqs EXCEPT ![r] = Throw(reqs[r], PersistenceError)]
            /\ UNCHANGED alerts
    /\ UNCHANGED <<audit, clock, calls, issued>>

\* auditLogManager.log settles, createAlert returns savedAlert
createAlert_return(r, inserted) ==
    /\ reqs[r].op = "createAlert" /\ reqs[r].pc = "log"
    /\ audit' = log(audit,
                    Entry("ALERT_CREATED", reqs[r].call, reqs[r].alert[1].id,
                          Undefined, Undefined, Undefined),
                    inserted)
    /\ reqs' = [reqs EXCEPT ![r].pc = "returned",
                            ![r].audited = inserted]
    /\ UNCHANGED <<alerts, clock, calls, issued>>

\* a catch block that rethrows without logging
createAlert_catch_unlogged(r, inserted) ==
    /\ reqs[r].op = "createAlert" /\ reqs[r].pc = "catch"
    /\ reqs' = [reqs EXCEPT ![r].pc = "raised", ![r].audited = inserted]
    /\ UNCHANGED <<alerts, audit, clock, calls, issued>>

\* the catch block: log ALERT_CREATION_FAILED, then rethrow
createAlert_catch(r, inserted) ==
    /\ reqs[r].op = "createAlert" /\ reqs[r].pc = "catch"
    /\ audit' = log(audit,
                    Entry("ALERT_CREATION_FAILED", reqs[r].call, Undefined,
                          Undefined, Undefined, reqs[r].error),
                    inserted)
    /\ reqs' = [reqs EXCEPT ![r].pc = "raised",
                            ![r].audited = inserted]
    /\ UNCHANGED <<alerts, clock, calls, issued>>


\* ------------------------------------------------------- updateAlertStatus

\* updateAlertStatus up to its first await: check the arguments, call findById
updateAlertStatus_enter(r, alertId, newStatus) ==
    /\ CanEnter(r)
    /\ calls' = calls + 1
    /\ LET req == Enter("updateAlertStatus", NoFinding, alertId, newStatus) IN
       reqs' = [reqs EXCEPT ![r] =
            IF Falsy(alertId) THEN Throw(req, AlertIdRequired)
            ELSE IF Falsy(newStatus) THEN Throw(req, NewStatusRequired)
            ELSE [req EXCEPT !.pc = "findById"]]
    /\ UNCHANGED <<alerts, audit, clock, issued>>

\* updateAlertStatus that goes on to updateOne when findById returned null
updateAlertStatus_found_unchecked(r, answered) ==
    /\ reqs[r].op = "updateAlertStatus" /\ reqs[r].pc = "findById"
    /\ LET req          == reqs[r]
           currentAlert == findById(alerts, req.alertId)
       IN reqs' = [reqs EXCEPT ![r] =
            IF ~answered THEN Throw(req, PersistenceError)
            ELSE IF currentAlert # <<>>
                    /\ ~_isValidTransition(currentAlert[1].status, req.newStatus)
                 THEN Throw([req EXCEPT !.currentAlert = currentAlert],
                            InvalidTransition(currentAlert[1].status, req.newStatus))
            ELSE [req EXCEPT !.pc = "updateOne", !.currentAlert = currentAlert,
                             !.updatedAt = clock]]
    /\ UNCHANGED <<alerts, audit, clock, calls, issued>>

\* findById settles; the transition is checked against what it returned, and
\* alertRepository.updateStatus issues updateOne with a fresh updatedAt
updateAlertStatus_found(r, answered) ==
    /\ reqs[r].op = "updateAlertStatus" /\ reqs[r].pc = "findById"
    /\ LET req          == reqs[r]
           currentAlert == findById(alerts, req.alertId)
       IN reqs' = [reqs EXCEPT ![r] =
            IF ~answered THEN Throw(req, PersistenceError)
            ELSE IF currentAlert = <<>> THEN Throw(req, NotFound(req.alertId))
            ELSE IF ~_isValidTransition(currentAlert[1].status, req.newStatus)
                 THEN Throw([req EXCEPT !.currentAlert = currentAlert],
                            InvalidTransition(currentAlert[1].status, req.newStatus))
            ELSE [req EXCEPT !.pc = "updateOne", !.currentAlert = currentAlert,
                             !.updatedAt = clock]]
    /\ UNCHANGED <<alerts, audit, clock, calls, issued>>

\* updateOne settles; alertRepository.updateStatus then reads the alert back
updateAlertStatus_updated(r, written) ==
    /\ reqs[r].op = "updateAlertStatus" /\ reqs[r].pc = "updateOne"
    /\ IF written
       THEN /\ alerts' = updateOne(alerts, reqs[r].alertId, reqs[r].newStatus,
                                   reqs[r].updatedAt)
            /\ reqs' = [reqs EXCEPT ![r].pc = "readBack",
                                    ![r].matched =
                                        Matching(alerts, reqs[r].alertId) # {}]
       ELSE /\ reqs' = [reqs EXCEPT ![r] = Throw(reqs[r], PersistenceError)]
            /\ UNCHANGED alerts
    /\ UNCHANGED <<audit, clock, calls, issued>>

\* the read-back findById settles; its result is updatedAlert, and the
\* STATUS_UPDATED entry is handed to log
updateAlertStatus_readBack(r, answered) ==
    /\ reqs[r].op = "updateAlertStatus" /\ reqs[r].pc = "readBack"
    /\ reqs' = [reqs EXCEPT ![r] =
            IF ~answered THEN Throw(reqs[r], PersistenceError)
            ELSE [reqs[r] EXCEPT !.pc = "log",
                                 !.ret = findById(alerts, reqs[r].alertId)]]
    /\ UNCHANGED <<alerts, audit, clock, calls, issued>>

\* auditLogManager.log settles, updateAlertStatus returns updatedAlert
updateAlertStatus_return(r, inserted) ==
    /\ reqs[r].op = "updateAlertStatus" /\ reqs[r].pc = "log"
    /\ audit' = log(audit,
                    Entry("STATUS_UPDATED", reqs[r].call, reqs[r].alertId,
                          reqs[r].currentAlert[1].status, reqs[r].newStatus,
                          Undefined),
                    inserted)
    /\ reqs' = [reqs EXCEPT ![r].pc = "returned",
                            ![r].audited = inserted]
    /\ UNCHANGED <<alerts, clock, calls, issued>>

\* an updateAlertStatus whose catch block rethrows without logging
updateAlertStatus_catch_unlogged(r, inserted) ==
    /\ reqs[r].op = "updateAlertStatus" /\ reqs[r].pc = "catch"
    /\ reqs' = [reqs EXCEPT ![r].pc = "raised",
                            ![r].audited = inserted]
    /\ UNCHANGED <<alerts, audit, clock, calls, issued>>

\* the catch block: log STATUS_UPDATE_FAILED, then rethrow
updateAlertStatus_catch(r, inserted) ==
    /\ reqs[r].op = "updateAlertStatus" /\ reqs[r].pc = "catch"
    /\ audit' = log(audit,
                    Entry("STATUS_UPDATE_FAILED", reqs[r].call, reqs[r].alertId,
                          Undefined, reqs[r].newStatus, reqs[r].error),
                    inserted)
    /\ reqs' = [reqs EXCEPT ![r].pc = "raised",
                            ![r].audited = inserted]
    /\ UNCHANGED <<alerts, clock, calls, issued>>

\* ------------------------------------------------------------- deleteAlert

\* deleteAlert up to its first await: check the argument, call findById
deleteAlert_enter(r, alertId) ==
    /\ CanEnter(r)
    /\ calls' = calls + 1
    /\ LET req == Enter("deleteAlert", NoFinding, alertId, Undefined) IN
       reqs' = [reqs EXCEPT ![r] =
            IF Falsy(alertId) THEN Throw(req, AlertIdRequired)
            ELSE [req EXCEPT !.pc = "findById"]]
    /\ UNCHANGED <<alerts, audit, clock, issued>>

\* deleteAlert that calls alertRepository.delete whatever findById returned
deleteAlert_found_unchecked(r, answered) ==
    /\ reqs[r].op = "deleteAlert" /\ reqs[r].pc = "findById"
    /\ LET req   == reqs[r]
           alert == findById(alerts, req.alertId)
       IN reqs' = [reqs EXCEPT ![r] =
            IF ~answered THEN Throw(req, PersistenceError)
            ELSE [req EXCEPT !.pc = "deleteOne", !.currentAlert = alert]]
    /\ UNCHANGED <<alerts, audit, clock, calls, issued>>

\* findById settles; when the alert exists alertRepository.delete is called
deleteAlert_found(r, answered) ==
    /\ reqs[r].op = "deleteAlert" /\ reqs[r].pc = "findById"
    /\ LET req   == reqs[r]
           alert == findById(alerts, req.alertId)
       IN reqs' = [reqs EXCEPT ![r] =
            IF ~answered THEN Throw(req, PersistenceError)
            ELSE IF alert = <<>> THEN Throw(req, NotFound(req.alertId))
            ELSE [req EXCEPT !.pc = "deleteOne", !.currentAlert = alert]]
    /\ UNCHANGED <<alerts, audit, clock, calls, issued>>

\* a deleteAlert that also deletes the audit entries of the alert
deleteAlert_deleted_cascading(r, removed) ==
    /\ reqs[r].op = "deleteAlert" /\ reqs[r].pc = "deleteOne"
    /\ alerts' = deleteOne(alerts, reqs[r].alertId)
    /\ LET Kept(e) == e.alertId # reqs[r].alertId IN audit' = SelectSeq(audit, Kept)
    /\ reqs' = [reqs EXCEPT ![r].pc = "log"]
    /\ UNCHANGED <<clock, calls, issued>>

\* deleteOne settles, then the ALERT_DELETED entry is handed to log
deleteAlert_deleted(r, removed) ==
    /\ reqs[r].op = "deleteAlert" /\ reqs[r].pc = "deleteOne"
    /\ IF removed
       THEN /\ alerts' = deleteOne(alerts, reqs[r].alertId)
            /\ reqs' = [reqs EXCEPT ![r].pc = "log"]
       ELSE /\ reqs' = [reqs EXCEPT ![r] = Throw(reqs[r], PersistenceError)]
            /\ UNCHANGED alerts
    /\ UNCHANGED <<audit, clock, calls, issued>>

\* a deleteAlert into whose catch block a failed audit insert is thrown
deleteAlert_return_auditThrows(r, inserted) ==
    /\ reqs[r].op = "deleteAlert" /\ reqs[r].pc = "log"
    /\ audit' = log(audit,
                    Entry("ALERT_DELETED", reqs[r].call, reqs[r].alertId,
                          Undefined, Undefined, Undefined),
                    inserted)
    /\ reqs' = [reqs EXCEPT ![r] =
            IF inserted
            THEN [reqs[r] EXCEPT !.pc = "returned", !.ret = <<TRUE>>,
                                 !.audited = inserted]
            ELSE Throw(reqs[r], PersistenceError)]
    /\ UNCHANGED <<alerts, clock, calls, issued>>

\* auditLogManager.log settles, deleteAlert returns true
deleteAlert_return(r, inserted) ==
    /\ reqs[r].op = "deleteAlert" /\ reqs[r].pc = "log"
    /\ audit' = log(audit,
                    Entry("ALERT_DELETED", reqs[r].call, reqs[r].alertId,
                          Undefined, Undefined, Undefined),
                    inserted)
    /\ reqs' = [reqs EXCEPT ![r].pc = "returned",
                            ![r].ret = <<TRUE>>,
                            ![r].audited = inserted]
    /\ UNCHANGED <<alerts, clock, calls, issued>>

\* the catch block: log ALERT_DELETION_FAILED, then rethrow
deleteAlert_catch(r, inserted) ==
    /\ reqs[r].op = "deleteAlert" /\ reqs[r].pc = "catch"
    /\ audit' = log(audit,
                    Entry("ALERT_DELETION_FAILED", reqs[r].call, reqs[r].alertId,
                          Undefined, Undefined, reqs[r].error),
                    inserted)
    /\ reqs' = [reqs EXCEPT ![r].pc = "raised",
                            ![r].audited = inserted]
    /\ UNCHANGED <<alerts, clock, calls, issued>>

\* --------------------------------------------------------------- getAlerts

\* getAlerts up to its await: call findAll(filter)
getAlerts_enter(r, filter) ==
    /\ CanEnter(r)
    /\ calls' = calls + 1
    /\ reqs' = [reqs EXCEPT ![r] =
            [Enter("getAlerts", NoFinding, Undefined, Undefined)
                EXCEPT !.filter = filter, !.pc = "findAll"]]
    /\ UNCHANGED <<alerts, audit, clock, issued>>

\* findAll settles: the list is returned, or the catch block rethrows the error
\* without writing to the audit log
getAlerts_return(r, answered) ==
    /\ reqs[r].op = "getAlerts" /\ reqs[r].pc = "findAll"
    /\ reqs' = [reqs EXCEPT ![r] =
            IF answered
            THEN [reqs[r] EXCEPT !.pc = "returned",
                                 !.ret = findAll(alerts, reqs[r].filter)]
            ELSE [reqs[r] EXCEPT !.pc = "raised", !.error = PersistenceError]]
    /\ UNCHANGED <<alerts, audit, clock, calls, issued>>

\* ------------------------------------------------------------ getAlertById

\* getAlertById up to its await: check the argument, call findById; the catch
\* block rethrows without writing to the audit log
getAlertById_enter(r, alertId) ==
    /\ CanEnter(r)
    /\ calls' = calls + 1
    /\ LET req == Enter("getAlertById", NoFinding, alertId, Undefined) IN
       reqs' = [reqs EXCEPT ![r] =
            IF Falsy(alertId)
            THEN [req EXCEPT !.pc = "raised", !.error = AlertIdRequired]
            ELSE [req EXCEPT !.pc = "findById"]]
    /\ UNCHANGED <<alerts, audit, clock, issued>>

\* findById settles: the alert is returned, or an error is rethrown
getAlertById_return(r, answered) ==
    /\ reqs[r].op = "getAlertById" /\ reqs[r].pc = "findById"
    /\ LET req   == reqs[r]
           alert == findById(alerts, req.alertId)
       IN reqs' = [reqs EXCEPT ![r] =
            IF ~answered
            THEN [req EXCEPT !.pc = "raised", !.error = PersistenceError]
            ELSE IF alert = <<>>
            THEN [req EXCEPT !.pc = "raised", !.error = NotFound(req.alertId)]
            ELSE [req EXCEPT !.pc = "returned", !.ret = alert]]
    /\ UNCHANGED <<alerts, audit, clock, calls, issued>>

\* ----------------------------------------------------------- getStatistics

\* alerts.filter(a => a[field] === value).length
countOf(list, field, value) ==
    LET Kept(a) == a[field] = value IN Len(SelectSeq(list, Kept))

\* a stats object whose inProgress bucket compares with 'In Progress'
stats_inProgressMisspelt(list) ==
    [total        |-> Len(list),
     new          |-> countOf(list, "status", "New"),
     acknowledged |-> countOf(list, "status", "Acknowledged"),
     inProgress   |-> countOf(list, "status", "In Progress"),
     resolved     |-> countOf(list, "status", "Resolved"),
     bySeverity   |-> [high   |-> countOf(list, "severity", "High"),
                       medium |-> countOf(list, "severity", "Medium"),
                       low    |-> countOf(list, "severity", "Low")],
     byCategory   |-> [cve      |-> countOf(list, "category", "CVE"),
                       s3       |-> countOf(list, "category", "S3"),
                       iam      |-> countOf(list, "category", "IAM"),
                       network  |-> countOf(list, "category", "Network"),
                       activity |-> countOf(list, "category", "Activity")]]

\* a stats object whose low bucket compares with 'low'
stats_lowLowerCase(list) ==
    [total        |-> Len(list),
     new          |-> countOf(list, "status", "New"),
     acknowledged |-> countOf(list, "status", "Acknowledged"),
     inProgress   |-> countOf(list, "status", "In-Progress"),
     resolved     |-> countOf(list, "status", "Resolved"),
     bySeverity   |-> [high   |-> countOf(list, "severity", "High"),
                       medium |-> countOf(list, "severity", "Medium"),
                       low    |-> countOf(list, "severity", "low")],
     byCategory   |-> [cve      |-> countOf(list, "category", "CVE"),
                       s3       |-> countOf(list, "category", "S3"),
                       iam      |-> countOf(list, "category", "IAM"),
                       network  |-> countOf(list, "category", "Network"),
                       activity |-> countOf(list, "category", "Activity")]]

\* the stats object getStatistics builds from the list findAll returned
stats(list) ==
    [total        |-> Len(list),
     new          |-> countOf(list, "status", "New"),
     acknowledged |-> countOf(list, "status", "Acknowledged"),
     inProgress   |-> countOf(list, "status", "In-Progress"),
     resolved     |-> countOf(list, "status", "Resolved"),
     bySeverity   |-> [high   |-> countOf(list, "severity", "High"),
                       medium |-> countOf(list, "severity", "Medium"),
                       low    |-> countOf(list, "severity", "Low")],
     byCategory   |-> [cve      |-> countOf(list, "category", "CVE"),
                       s3       |-> countOf(list, "category", "S3"),
                       iam      |-> countOf(list, "category", "IAM"),
                       network  |-> countOf(list, "category", "Network"),
                       activity |-> countOf(list, "category", "Activity")]]

\* getStatistics up to its await: call findAll()
getStatistics_enter(r) ==
    /\ CanEnter(r)
    /\ calls' = calls + 1
    /\ reqs' = [reqs EXCEPT ![r] =
            [Enter("getStatistics", NoFinding, Undefined, Undefined)
                EXCEPT !.pc = "findAll"]]
    /\ UNCHANGED <<alerts, audit, clock, issued>>

\* a getStatistics whose catch block writes a failure entry to the audit log
getStatistics_return_logged(r, answered) ==
    /\ reqs[r].op = "getStatistics" /\ reqs[r].pc = "findAll"
    /\ reqs' = [reqs EXCEPT ![r] =
            IF answered
            THEN [reqs[r] EXCEPT !.pc = "returned",
                                 !.ret = <<stats(findAll(alerts, NoFilter))>>]
            ELSE [reqs[r] EXCEPT !.pc = "raised", !.error = PersistenceError]]
    /\ audit' = IF answered THEN audit
                ELSE log(audit, Entry("STATISTICS_FAILED", reqs[r].call, Undefined,
                                      Undefined, Undefined, PersistenceError), TRUE)
    /\ UNCHANGED <<alerts, clock, calls, issued>>

\* findAll settles: the stats object is built and returned, or the catch block
\* rethrows the error without writing to the audit log
getStatistics_return(r, answered) ==
    /\ reqs[r].op = "getStatistics" /\ reqs[r].pc = "findAll"
    /\ reqs' = [reqs EXCEPT ![r] =
            IF answered
            THEN [reqs[r] EXCEPT !.pc = "returned",
                                 !.ret = <<stats(findAll(alerts, NoFilter))>>]
            ELSE [reqs[r] EXCEPT !.pc = "raised", !.error = PersistenceError]]
    /\ UNCHANGED <<alerts, audit, clock, calls, issued>>

\* ------------------------------------------------------------------ routes

\* the HTTP status each route of routes/alerts.js answers with, when the engine
\* call it made has returned and when it has thrown
responseStatus(op, thrown) ==
    CASE op = "getAlerts"         -> IF thrown THEN 500 ELSE 200
      [] op = "getAlertById"      -> IF thrown THEN 404 ELSE 200
      [] op = "createAlert"       -> IF thrown THEN 400 ELSE 201
      [] op = "updateAlertStatus" -> IF thrown THEN 400 ELSE 200
      [] op = "deleteAlert"       -> IF thrown THEN 400 ELSE 200
      [] op = "getStatistics"     -> IF thrown THEN 500 ELSE 200

\* ----------------------------------------------------------- specification

\* the alert an earlier request left behind, in the status it has reached
SeedAlert(status) == [NewAlert(SeedFinding, SeedId, 0) EXCEPT !.status = status]

\* The engine keeps no state of its own (routes/alerts.js builds an AlertManager
\* per request): a behaviour starts on what earlier requests left in the
\* database, here nothing or one alert somewhere in its lifecycle.
Stores == {<<>>} \cup {<<SeedAlert(s)>> : s \in Statuses}

InitOn(stores) ==
    /\ alerts \in stores
    /\ audit = <<>>
    /\ reqs = [r \in Requests |-> Idle]
    /\ clock = 1
    /\ calls = 0
    /\ issued = {alerts[i].id : i \in DOMAIN alerts}

Init == InitOn(Stores)

\* Spec: one request at a time; every call on either collection may throw
Next ==
    \/ Tick
    \/ /\ calls < MaxCalls
       /\ \E f \in Findings, n \in RandomSample : createAlert_enter("r1", f, n)
    \/ \E ok \in BOOLEAN : createAlert_save("r1", ok)
    \/ \E ok \in BOOLEAN : createAlert_return("r1", ok)
    \/ \E ok \in BOOLEAN : createAlert_catch("r1", ok)
    \/ /\ calls < MaxCalls
       /\ \E u \in UpdateInputs : updateAlertStatus_enter("r1", u[1], u[2])
    \/ \E ok \in BOOLEAN : updateAlertStatus_found("r1", ok)
    \/ \E ok \in BOOLEAN : updateAlertStatus_updated("r1", ok)
    \/ \E ok \in BOOLEAN : updateAlertStatus_readBack("r1", ok)
    \/ \E ok \in BOOLEAN : updateAlertStatus_return("r1", ok)
    \/ \E ok \in BOOLEAN : updateAlertStatus_catch("r1", ok)
    \/ /\ calls < MaxCalls
       /\ \E id \in IdInputs : deleteAlert_enter("r1", id)
    \/ \E ok \in BOOLEAN : deleteAlert_found("r1", ok)
    \/ \E ok \in BOOLEAN : deleteAlert_deleted("r1", ok)
    \/ \E ok \in BOOLEAN : deleteAlert_return("r1", ok)
    \/ \E ok \in BOOLEAN : deleteAlert_catch("r1", ok)
    \/ /\ calls < MaxCalls
       /\ \E filter \in FilterInputs : getAlerts_enter("r1", filter)
    \/ \E ok \in BOOLEAN : getAlerts_return("r1", ok)
    \/ /\ calls < MaxCalls
       /\ \E id \in IdInputs : getAlertById_enter("r1", id)
    \/ \E ok \in BOOLEAN : getAlertById_return("r1", ok)
    \/ /\ calls < MaxCalls
       /\ getStatistics_enter("r1")
    \/ \E ok \in BOOLEAN : getStatistics_return("r1", ok)

Spec == Init /\ [][Next]_vars

\* SpecCreate: one createAlert call on an empty store, over every shape of
\* finding; save and the audit insert may throw
InitCreate == InitOn({<<>>})

NextCreate ==
    \/ Tick
    \/ /\ reqs["r1"].pc = "idle"
       /\ \E f \in FindingInputs, n \in RandomSample : createAlert_enter("r1", f, n)
    \/ \E ok \in BOOLEAN : createAlert_save("r1", ok)
    \/ \E ok \in BOOLEAN : createAlert_return("r1", ok)
    \/ \E ok \in BOOLEAN : createAlert_catch("r1", ok)

SpecCreate == InitCreate /\ [][NextCreate]_vars

\* SpecLifecycle: one alert is created on an empty store and then updated, one
\* call at a time, with every status name in every order; both collections
\* answer every call
InitLifecycle == InitOn({<<>>})

NextLifecycle ==
    \/ Tick
    \/ /\ calls < MaxChain /\ alerts = <<>>
       /\ createAlert_enter("r1", SeedFinding, 0)
    \/ createAlert_save("r1", TRUE)
    \/ createAlert_return("r1", TRUE)
    \/ /\ calls < MaxChain
       /\ \E id \in issued, s \in StatusInputs : updateAlertStatus_enter("r1", id, s)
    \/ updateAlertStatus_found("r1", TRUE)
    \/ updateAlertStatus_updated("r1", TRUE)
    \/ updateAlertStatus_readBack("r1", TRUE)
    \/ updateAlertStatus_return("r1", TRUE)
    \/ updateAlertStatus_catch("r1", TRUE)

SpecLifecycle == InitLifecycle /\ [][NextLifecycle]_vars

\* SpecConcurrent: two requests in flight at once, their steps interleaved at
\* every await; both collections answer every call
InitConcurrent == InitOn({<<>>, <<SeedAlert("New")>>})

NextConcurrent ==
    \/ Tick
    \/ /\ calls < MaxConcurrentCalls
       /\ \E r \in Requests, n \in RandomSample : createAlert_enter(r, SeedFinding, n)
    \/ \E r \in Requests : createAlert_save(r, TRUE)
    \/ \E r \in Requests : createAlert_return(r, TRUE)
    \/ /\ calls < MaxConcurrentCalls
       /\ \E r \in Requests, id \in issued, s \in Statuses :
              updateAlertStatus_enter(r, id, s)
    \/ \E r \in Requests : updateAlertStatus_found(r, TRUE)
    \/ \E r \in Requests : updateAlertStatus_updated(r, TRUE)
    \/ \E r \in Requests : updateAlertStatus_readBack(r, TRUE)
    \/ \E r \in Requests : updateAlertStatus_return(r, TRUE)
    \/ \E r \in Requests : updateAlertStatus_catch(r, TRUE)

SpecConcurrent == InitConcurrent /\ [][NextConcurrent]_vars

\* SpecDelete: alerts are created, deleted, fetched and updated, one call at a
\* time, starting on what earlier requests left; both collections answer every
\* call
InitDelete == InitOn(Stores)

NextDelete ==
    \/ Tick
    \/ /\ calls < MaxDeleteCalls
       /\ createAlert_enter("r1", SeedFinding, 0)
    \/ createAlert_save("r1", TRUE)
    \/ createAlert_return("r1", TRUE)
    \/ /\ calls < MaxDeleteCalls
       /\ \E id \in issued : deleteAlert_enter("r1", id)
    \/ deleteAlert_found("r1", TRUE)
    \/ deleteAlert_deleted("r1", TRUE)
    \/ deleteAlert_return("r1", TRUE)
    \/ deleteAlert_catch("r1", TRUE)
    \/ /\ calls < MaxDeleteCalls
       /\ \E id \in issued : getAlertById_enter("r1", id)
    \/ getAlertById_return("r1", TRUE)
    \/ /\ calls < MaxDeleteCalls
       /\ \E id \in issued : updateAlertStatus_enter("r1", id, "Acknowledged")
    \/ updateAlertStatus_found("r1", TRUE)
    \/ updateAlertStatus_updated("r1", TRUE)
    \/ updateAlertStatus_readBack("r1", TRUE)
    \/ updateAlertStatus_return("r1", TRUE)
    \/ updateAlertStatus_catch("r1", TRUE)

SpecDelete == InitDelete /\ [][NextDelete]_vars

\* the findings the requests of SpecStats post: a High CVE and a Low S3 finding
StatsFindings ==
    {Finding("CVE", "High", "Port scan detected"),
     Finding("S3", "Low", "Port scan detected")}

\* SpecStats: alerts are created and getStatistics is called, one call at a
\* time, starting on what earlier requests left; findAll may throw
InitStats == InitOn(Stores)

NextStats ==
    \/ Tick
    \/ /\ calls < MaxStatsCalls
       /\ \E f \in StatsFindings : createAlert_enter("r1", f, 0)
    \/ createAlert_save("r1", TRUE)
    \/ createAlert_return("r1", TRUE)
    \/ /\ calls < MaxStatsCalls
       /\ getStatistics_enter("r1")
    \/ \E ok \in BOOLEAN : getStatistics_return("r1", ok)

SpecStats == InitStats /\ [][NextStats]_vars

\* SpecQuery: alerts are created and getAlerts is called with every filter, one
\* call at a time, starting on what earlier requests left; findAll may throw
InitQuery == InitOn(Stores)

NextQuery ==
    \/ Tick
    \/ /\ calls < MaxQueryCalls
       /\ \E f \in StatsFindings : createAlert_enter("r1", f, 0)
    \/ createAlert_save("r1", TRUE)
    \/ createAlert_return("r1", TRUE)
    \/ /\ calls < MaxQueryCalls
       /\ \E filter \in FilterInputs : getAlerts_enter("r1", filter)
    \/ \E ok \in BOOLEAN : getAlerts_return("r1", ok)

SpecQuery == InitQuery /\ [][NextQuery]_vars

\* a second alert an earlier request left behind, with an id of its own
OtherId == _generateAlertId(0, 2)

OtherAlert == NewAlert(Finding("CVE", "High", "Port scan detected"), OtherId, 0)

\* SpecRace: two requests in flight at once on a store of two alerts, creating,
\* updating and deleting, their steps interleaved at every await; both
\* collections answer every call
InitRace == InitOn({<<SeedAlert(s), OtherAlert>> : s \in {"New", "In-Progress"}})

NextRace ==
    \/ /\ calls < MaxRaceCalls
       /\ \E r \in Requests : createAlert_enter(r, SeedFinding, 0)
    \/ \E r \in Requests : createAlert_save(r, TRUE)
    \/ \E r \in Requests : createAlert_return(r, TRUE)
    \/ /\ calls < MaxRaceCalls
       /\ \E r \in Requests, id \in issued, s \in Statuses :
              updateAlertStatus_enter(r, id, s)
    \/ \E r \in Requests : updateAlertStatus_found(r, TRUE)
    \/ \E r \in Requests : updateAlertStatus_updated(r, TRUE)
    \/ \E r \in Requests : updateAlertStatus_readBack(r, TRUE)
    \/ \E r \in Requests : updateAlertStatus_return(r, TRUE)
    \/ \E r \in Requests : updateAlertStatus_catch(r, TRUE)
    \/ /\ calls < MaxRaceCalls
       /\ \E r \in Requests, id \in issued : deleteAlert_enter(r, id)
    \/ \E r \in Requests : deleteAlert_found(r, TRUE)
    \/ \E r \in Requests : deleteAlert_deleted(r, TRUE)
    \/ \E r \in Requests : deleteAlert_return(r, TRUE)
    \/ \E r \in Requests : deleteAlert_catch(r, TRUE)

SpecRace == InitRace /\ [][NextRace]_vars

\* the findings the requests of SpecEngine post: those of Spec and SpecStats and
\* one whose severity is not a level, classified by its description
EngineFindings ==
    Findings \cup StatsFindings
        \cup {Finding("Activity", "Critical", "Best Practice reminder")}

\* SpecEngine: every operation that writes the store, with legal and illegal
\* inputs, and getStatistics, one call at a time, starting on what earlier
\* requests left; both collections answer every call
InitEngine == InitOn(Stores)

NextEngine ==
    \/ /\ calls < MaxEngineCalls
       /\ \E f \in EngineFindings, n \in RandomSample : createAlert_enter("r1", f, n)
    \/ createAlert_save("r1", TRUE)
    \/ createAlert_return("r1", TRUE)
    \/ createAlert_catch("r1", TRUE)
    \/ /\ calls < MaxEngineCalls
       /\ \E u \in UpdateInputs : updateAlertStatus_enter("r1", u[1], u[2])
    \/ updateAlertStatus_found("r1", TRUE)
    \/ updateAlertStatus_updated("r1", TRUE)
    \/ updateAlertStatus_readBack("r1", TRUE)
    \/ updateAlertStatus_return("r1", TRUE)
    \/ updateAlertStatus_catch("r1", TRUE)
    \/ /\ calls < MaxEngineCalls
       /\ \E id \in IdInputs : deleteAlert_enter("r1", id)
    \/ deleteAlert_found("r1", TRUE)
    \/ deleteAlert_deleted("r1", TRUE)
    \/ deleteAlert_return("r1", TRUE)
    \/ deleteAlert_catch("r1", TRUE)
    \/ /\ calls < MaxEngineCalls
       /\ getStatistics_enter("r1")
    \/ getStatistics_return("r1", TRUE)

SpecEngine == InitEngine /\ [][NextEngine]_vars

\* ------------------------------------------------- vocabulary of the claims

\* the set of the elements of a sequence
Range(seq) == {seq[i] : i \in DOMAIN seq}

\* the audit entries written by engine call number c
EntriesOf(c) == {i \in DOMAIN audit : audit[i].call = c}

\* the call of slot r has returned / has thrown
Returned(r) == reqs[r].pc = "returned"

Raised(r) == reqs[r].pc = "raised"

\* the call of slot r is in, or has left, its catch block
Failing(r) == reqs[r].pc \in {"catch", "raised"}

LegalSeverities == {"High", "Medium", "Low"}

LegalCategories == {"CVE", "S3", "IAM", "Network", "Activity"}

LegalStatuses == {"New", "Acknowledged", "In-Progress", "Resolved"}

\* the transition table of the specification, as (from, to) pairs
TransitionTable ==
    {<<"New", "Acknowledged">>, <<"Acknowledged", "In-Progress">>,
     <<"In-Progress", "Resolved">>}

\* the description consists of white space only
IsBlank(d) == \A i \in 1..Len(d) : SubSeq(d, i, i) \in Whitespace

\* the messages of the errors _validateFinding raises
ValidationErrors ==
    {"Finding object is required", "Finding category is required",
     "Finding description is required"} \cup
    {"Invalid category: " \o c : c \in CategoryInputs \ {Undefined}}

\* ---------------------------------------------------------------------- C4

Rejected(f) ==
    \/ ~f.given
    \/ f.category \in {Undefined, ""}
    \/ f.category \notin LegalCategories
    \/ f.description = Undefined
    \/ IsBlank(f.description)

\* C5: createAlert fails with a validation error, with save never called and
\* the store unchanged, exactly for the findings that are missing, have a
\* missing or illegal category, or a missing or blank description; for every
\* other finding validation passes whatever the severity hint is.
C5_ValidationRejectsExactlyBadFindings ==
    \A r \in Requests :
        reqs[r].op = "createAlert" =>
            IF Rejected(reqs[r].finding)
            THEN /\ Failing(r)
                 /\ reqs[r].error \in ValidationErrors
                 /\ reqs[r].alert = <<>>
                 /\ alerts = <<>>
            ELSE /\ reqs[r].alert # <<>>
                 /\ Failing(r) => reqs[r].error = PersistenceError

\* a finding with a legal category and an illegal hint was rejected for its
\* white-space description
C5_Witness ==
    \E r \in Requests :
        /\ reqs[r].op = "createAlert" /\ Raised(r)
        /\ reqs[r].finding.category = "S3"
        /\ reqs[r].finding.severity = "Critical"
        /\ reqs[r].finding.description = " \t\n"
        /\ reqs[r].error = "Finding description is required"

\* ---------------------------------------------------------------------- C7

\* the lower-cased description contains a keyword of K
HasKeyword(d, K) == \E k \in K : includes(toLowerCase(d), k)

\* the reference classification of the claim
ReferenceSeverity(f) ==
    IF f.severity \in LegalSeverities THEN f.severity
    ELSE IF HasKeyword(f.description, highSeverityKeywords) THEN "High"
    ELSE IF HasKeyword(f.description, lowSeverityKeywords) THEN "Low"
    ELSE "Medium"

\* C7: the severity createAlert gives a valid finding is the hint when the hint
\* is legal, else High when the description holds a high keyword, else Low
\* when it holds a low keyword, else Medium; the two examples of the
\* specification come out High and Low.
C7_SeverityIsReferenceClassification ==
    \A r \in Requests :
        reqs[r].op = "createAlert" /\ reqs[r].alert # <<>> =>
            LET f        == reqs[r].finding
                severity == reqs[r].alert[1].severity
            IN  /\ severity = ReferenceSeverity(f)
                /\ f.severity \in LegalSeverities => severity = f.severity
                /\ f.severity \notin LegalSeverities =>
                    /\ f.description = "Critical remote exploit found"
                            => severity = "High"
                    /\ f.description = "Minor configuration recommendation"
                            => severity = "Low"
                    /\ f.description = "Public bucket without versioning"
                            => severity = "High"
                    /\ f.description = "Port scan detected"
                            => severity = "Medium"

\* an alert was built from a finding with an illegal hint whose description
\* holds both a high and a low keyword
C7_Witness ==
    \E r \in Requests :
        /\ reqs[r].op = "createAlert" /\ reqs[r].alert # <<>>
        /\ reqs[r].finding.severity = "high"
        /\ reqs[r].finding.description = "Public bucket without versioning"
        /\ reqs[r].alert[1].severity = "High"

\* ---------------------------------------------------------------------- C8

\* C8: with the audit insert working, a finished createAlert call has written
\* exactly one audit entry: ALERT_CREATED with the alert's id exactly when save
\* succeeded and the alert was returned, ALERT_CREATION_FAILED with the error
\* message exactly when validation or save failed and the error was rethrown.
C8_CreateWritesOneAuditEntry ==
    \A r \in Requests :
        LET q == reqs[r] IN
        q.op = "createAlert" /\ (Returned(r) \/ Raised(r)) /\ q.audited =>
            /\ Cardinality(EntriesOf(q.call)) = 1
            /\ LET e == audit[CHOOSE i \in EntriesOf(q.call) : TRUE] IN
               IF q.alert # <<>> /\ q.alert[1] \in Range(alerts)
               THEN /\ Returned(r)
                    /\ q.ret = q.alert
                    /\ e.action = "ALERT_CREATED"
                    /\ e.alertId = q.alert[1].id
               ELSE /\ Raised(r)
                    /\ q.error \in ValidationErrors \cup {PersistenceError}
                    /\ e.action = "ALERT_CREATION_FAILED"
                    /\ e.error = q.error

\* save threw, and the call ended with its one ALERT_CREATION_FAILED entry
C8_Witness ==
    \E r \in Requests :
        /\ reqs[r].op = "createAlert" /\ Raised(r) /\ reqs[r].audited
        /\ reqs[r].error = PersistenceError
        /\ \E i \in EntriesOf(reqs[r].call) :
                audit[i].action = "ALERT_CREATION_FAILED"

\* ---------------------------------------------------------------------- C1

\* the message is that of an invalid-transition error
IsInvalidTransitionError(e) ==
    Len(e) >= 26 /\ SubSeq(e, 1, 26) = "Invalid state transition: "

\* the message is that of a not-found error
IsNotFoundError(e) ==
    /\ Len(e) >= 24
    /\ SubSeq(e, 1, 14) = "Alert with ID "
    /\ SubSeq(e, Len(e) - 9, Len(e)) = " not found"

\* C1: when updateAlertStatus finds the alert in status s and is asked for a
\* status name that is not in the table's row for s, it fails with an
\* invalid-transition error and the alert's persisted status is still s.
C1_IllegalTransitionRejected ==
    \A r \in Requests :
        LET q == reqs[r] IN
        /\ q.op = "updateAlertStatus"
        /\ q.currentAlert # <<>>
        /\ <<q.currentAlert[1].status, q.newStatus>> \notin TransitionTable
        => /\ Failing(r)
           /\ IsInvalidTransitionError(q.error)
           /\ findById(alerts, q.alertId) # <<>>
           /\ findById(alerts, q.alertId)[1].status = q.currentAlert[1].status

\* a request to skip a stage (Acknowledged to Resolved) has been refused
C1_Witness ==
    \E r \in Requests :
        /\ reqs[r].op = "updateAlertStatus" /\ Raised(r)
        /\ reqs[r].currentAlert # <<>>
        /\ reqs[r].currentAlert[1].status = "Acknowledged"
        /\ reqs[r].newStatus = "Resolved"
        /\ IsInvalidTransitionError(reqs[r].error)
        /\ findById(alerts, reqs[r].alertId)[1].status = "Acknowledged"

\* ---------------------------------------------------------------------- C9

\* the call of slot r is an updateAlertStatus, given an id and a status name,
\* whose findById has answered, and no alert in the store has that id
UpdateOfMissingAlert(r) ==
    /\ reqs[r].op = "updateAlertStatus"
    /\ ~Falsy(reqs[r].alertId) /\ ~Falsy(reqs[r].newStatus)
    /\ reqs[r].pc # "findById"
    /\ reqs[r].error # PersistenceError
    /\ Matching(alerts, reqs[r].alertId) = {}

C9_FailsNotFound ==
    \A r \in Requests :
        UpdateOfMissingAlert(r) =>
            /\ Failing(r)
            /\ IsNotFoundError(reqs[r].error)
            /\ \A i \in EntriesOf(reqs[r].call) : audit[i].action # "STATUS_UPDATED"
            /\ Raised(r) /\ reqs[r].audited =>
                /\ Cardinality(EntriesOf(reqs[r].call)) = 1
                /\ \A i \in EntriesOf(reqs[r].call) :
                    /\ audit[i].action = "STATUS_UPDATE_FAILED"
                    /\ audit[i].alertId = reqs[r].alertId
                    /\ audit[i].error = reqs[r].error

\* a step that leaves such a call failing leaves the repository as it was
C9_StoreUntouched ==
    \A r \in Requests :
        UpdateOfMissingAlert(r)' /\ reqs'[r] # reqs[r] => alerts' = alerts

\* C9: updateAlertStatus on an id no alert has fails with a not-found error
\* whatever status name it is given, writes a STATUS_UPDATE_FAILED entry and no
\* STATUS_UPDATED entry, rethrows, and leaves the repository unchanged.
C9_UnknownIdFailsNotFound == []C9_FailsNotFound /\ [][C9_StoreUntouched]_vars

\* an update of an unknown id to a legal first status has thrown not-found
C9_Witness ==
    \E r \in Requests :
        /\ UpdateOfMissingAlert(r) /\ Raised(r) /\ reqs[r].audited
        /\ reqs[r].alertId = UnknownId
        /\ reqs[r].newStatus = "Acknowledged"
        /\ IsNotFoundError(reqs[r].error)

\* --------------------------------------------------------------------- C10

\* C10: when updateAlertStatus returns, the alert's persisted status is the
\* requested one, the call wrote exactly one STATUS_UPDATED entry whose old and
\* new status are the status found and the status requested (a row of the
\* table), and the value returned is the stored alert with the new status.
C10_SuccessfulUpdate ==
    \A r \in Requests :
        LET q == reqs[r] IN
        /\ q.op = "updateAlertStatus" /\ q.pc = "updateOne" =>
            q.currentAlert = findById(alerts, q.alertId)
        /\ q.op = "updateAlertStatus" /\ Returned(r) =>
            /\ findById(alerts, q.alertId) # <<>>
            /\ findById(alerts, q.alertId)[1].status = q.newStatus
            /\ q.ret = findById(alerts, q.alertId)
            /\ <<q.currentAlert[1].status, q.newStatus>> \in TransitionTable
            /\ q.audited =>
                /\ Cardinality(EntriesOf(q.call)) = 1
                /\ \A i \in EntriesOf(q.call) :
                    /\ audit[i].action = "STATUS_UPDATED"
                    /\ audit[i].alertId = q.alertId
                    /\ audit[i].oldStatus = q.currentAlert[1].status
                    /\ audit[i].newStatus = q.newStatus

\* an In-Progress alert has been resolved and the call has returned it
C10_Witness ==
    \E r \in Requests :
        /\ reqs[r].op = "updateAlertStatus" /\ Returned(r) /\ reqs[r].audited
        /\ reqs[r].currentAlert[1].status = "In-Progress"
        /\ reqs[r].ret # <<>> /\ reqs[r].ret[1].status = "Resolved"

\* ---------------------------------------------------------------------- C3

\* the audit entries of the updateAlertStatus calls made on alert x, in order
UpdatesOf(x) ==
    LET OfUpdate(e) == /\ e.alertId = x
                       /\ e.action \in {"STATUS_UPDATED", "STATUS_UPDATE_FAILED"}
    IN SelectSeq(audit, OfUpdate)

\* no call is in flight
Quiet == \A r \in Requests : reqs[r].pc \in {"idle", "returned", "raised"}

\* the first n updates made on x asked for the statuses of the chain, in order
ChainPrefix(u, n) ==
    /\ Len(u) >= n
    /\ \A i \in 1..n :
        u[i].newStatus = <<"Acknowledged", "In-Progress", "Resolved">>[i]

\* C3: on an alert that createAlert has just stored, updates to Acknowledged,
\* In-Progress and Resolved, in that order, each succeed and leave the alert in
\* the status asked for; every update made after them fails and the alert stays
\* Resolved.
C3_FullChainThenTerminal ==
    \A x \in issued :
        LET u == UpdatesOf(x) IN
        /\ Quiet /\ Len(u) = 0 /\ findById(alerts, x) # <<>>
           => findById(alerts, x)[1].status = "New"
        /\ \A n \in 1..3 :
            ChainPrefix(u, n) =>
                /\ u[n].action = "STATUS_UPDATED"
                /\ Quiet /\ Len(u) = n =>
                    /\ findById(alerts, x)[1].status = u[n].newStatus
                    /\ \E r \in Requests : /\ reqs[r].call = u[n].call
                                           /\ Returned(r)
                                           /\ reqs[r].ret[1].status = u[n].newStatus
        /\ ChainPrefix(u, 3) =>
            /\ \A i \in 4..Len(u) : u[i].action = "STATUS_UPDATE_FAILED"
            /\ Quiet => findById(alerts, x)[1].status = "Resolved"
            /\ Quiet /\ Len(u) > 3 =>
                \E r \in Requests : reqs[r].call = u[Len(u)].call /\ Raised(r)

\* the chain has been followed to Resolved and an update to In-Progress made
\* after it has been refused
C3_Witness ==
    \E x \in issued :
        LET u == UpdatesOf(x) IN
        /\ Quiet /\ ChainPrefix(u, 3) /\ Len(u) = 4
        /\ u[3].action = "STATUS_UPDATED"
        /\ u[4].newStatus = "In-Progress" /\ u[4].action = "STATUS_UPDATE_FAILED"
        /\ audit[1].action = "ALERT_CREATED" /\ audit[1].alertId = x
        /\ findById(alerts, x)[1].status = "Resolved"

\* ---------------------------------------------------------------------- C2

\* the persisted status of alert x, or none when no alert has that id
StatusOf(coll, x) ==
    IF findById(coll, x) = <<>> THEN Undefined ELSE findById(coll, x)[1].status

\* C2: whatever the interleaving of the requests, every change of an alert's
\* persisted status is a row of the transition table: no stage is skipped, no
\* status goes backward, and a Resolved alert stays Resolved.
C2_OnlyTableTransitions ==
    [][\A x \in issued :
          /\ StatusOf(alerts, x) # Undefined
          /\ StatusOf(alerts', x) # Undefined
          /\ StatusOf(alerts', x) # StatusOf(alerts, x)
          => <<StatusOf(alerts, x), StatusOf(alerts', x)>> \in TransitionTable]_vars

\* ---------------------------------------------------------------------- C6

\* C6: the ids of the alerts createAlert has stored are pairwise distinct, also
\* when two calls run in the same millisecond or concurrently.
C6_IdsPairwiseDistinct ==
    \A i, j \in DOMAIN alerts : i # j => alerts[i].id # alerts[j].id

\* --------------------------------------------------------------------- C11

\* the call of slot r is a deleteAlert, given an id, whose findById has
\* answered, and no alert in the store has that id
DeleteOfMissingAlert(r) ==
    /\ reqs[r].op = "deleteAlert"
    /\ ~Falsy(reqs[r].alertId)
    /\ reqs[r].pc # "findById"
    /\ reqs[r].error # PersistenceError
    /\ Matching(alerts, reqs[r].alertId) = {}

\* such a call is in its catch block or has thrown, never at deleteOne
C11_FailsNotFound ==
    \A r \in Requests :
        DeleteOfMissingAlert(r) /\ ~Returned(r) /\ reqs[r].pc # "log" =>
            /\ Failing(r)
            /\ IsNotFoundError(reqs[r].error)
            /\ \A i \in EntriesOf(reqs[r].call) : audit[i].action # "ALERT_DELETED"
            /\ Raised(r) /\ reqs[r].audited =>
                /\ Cardinality(EntriesOf(reqs[r].call)) = 1
                /\ \A i \in EntriesOf(reqs[r].call) :
                    /\ audit[i].action = "ALERT_DELETION_FAILED"
                    /\ audit[i].alertId = reqs[r].alertId
                    /\ audit[i].error = reqs[r].error

\* a deleteAlert that found no alert under its id when findById answered never
\* reaches deleteOne, and none of its steps changes the alerts collection
C11_StoreUntouched ==
    \A r \in Requests :
        /\ reqs[r].op = "deleteAlert" /\ reqs[r].pc = "findById"
        /\ Matching(alerts, reqs[r].alertId) = {}
        /\ reqs'[r] # reqs[r]
        => /\ reqs'[r].pc = "catch"
           /\ alerts' = alerts

\* C11: deleteAlert on an id no alert has fails with a not-found error without
\* calling Repository.delete, writes an ALERT_DELETION_FAILED entry and no
\* ALERT_DELETED entry, rethrows, and leaves the repository unchanged.
C11_DeleteUnknownIdFailsNotFound ==
    []C11_FailsNotFound /\ [][C11_StoreUntouched]_vars

\* a deleteAlert of an unknown id has thrown not-found on a non-empty store
C11_Witness ==
    \E r \in Requests :
        /\ DeleteOfMissingAlert(r) /\ Raised(r) /\ reqs[r].audited
        /\ reqs[r].alertId = UnknownId
        /\ IsNotFoundError(reqs[r].error)
        /\ alerts # <<>>
        /\ \E i \in EntriesOf(reqs[r].call) : audit[i].action = "ALERT_DELETION_FAILED"

\* --------------------------------------------------------------------- C12

\* the list without its element at position i
Without(list, i) == SubSeq(list, 1, i - 1) \o SubSeq(list, i + 1, Len(list))

\* a deleteAlert that has returned: true, its id gone from the store, and one
\* ALERT_DELETED entry for the id
C12_Deleted ==
    \A r \in Requests :
        reqs[r].op = "deleteAlert" /\ Returned(r) =>
            /\ reqs[r].ret = <<TRUE>>
            /\ Matching(alerts, reqs[r].alertId) = {}
            /\ Cardinality(EntriesOf(reqs[r].call)) = 1
            /\ \A i \in EntriesOf(reqs[r].call) :
                /\ audit[i].action = "ALERT_DELETED"
                /\ audit[i].alertId = reqs[r].alertId

\* the call made right after a successful deleteAlert(id), when it is a
\* getAlertById(id) or an updateAlertStatus(id, ...), ends in not-found
C12_ThenNotFound ==
    \A r \in Requests :
        /\ reqs[r].op \in {"getAlertById", "updateAlertStatus"}
        /\ reqs[r].pc \in {"returned", "raised"}
        /\ \E i \in EntriesOf(reqs[r].call - 1) :
               /\ audit[i].action = "ALERT_DELETED"
               /\ audit[i].alertId = reqs[r].alertId
        => Raised(r) /\ IsNotFoundError(reqs[r].error)

\* the step in which deleteOne settles removes one alert, the one found, and
\* the ALERT_DELETED entry is written by a later step
C12_RemovesOnlyThatAlert ==
    \A r \in Requests :
        reqs[r].op = "deleteAlert" /\ reqs[r].pc = "deleteOne" /\ reqs'[r].pc = "log"
        => /\ \E i \in DOMAIN alerts :
                /\ alerts[i].id = reqs[r].alertId
                /\ alerts' = Without(alerts, i)
           /\ audit' = audit

\* C12: a deleteAlert that succeeds removes the alert and no other, writes
\* exactly one ALERT_DELETED entry for the id after the removal and returns
\* true; a getAlertById or updateAlertStatus on that id that follows fails with
\* a not-found error.
C12_DeleteRemovesTheAlert ==
    []C12_Deleted /\ []C12_ThenNotFound /\ [][C12_RemovesOnlyThatAlert]_vars

\* --------------------------------------------------------------------- C13

\* the number of stored alerts whose `field` is `value`
NumberWith(field, value) ==
    Cardinality({i \in DOMAIN alerts : alerts[i][field] = value})

\* the store holds exactly one High CVE alert and one Low S3 alert, both New
OneHighCveOneLowS3 ==
    /\ Len(alerts) = 2
    /\ \E i, j \in DOMAIN alerts :
        /\ alerts[i].severity = "High" /\ alerts[i].category = "CVE"
        /\ alerts[j].severity = "Low" /\ alerts[j].category = "S3"
        /\ alerts[i].status = "New" /\ alerts[j].status = "New"

\* C13: the object getStatistics returns holds the number of stored alerts and,
\* for each status, severity and category, the number of stored alerts with
\* that value; all counts are zero on an empty store; with one High CVE and one
\* Low S3 alert created, total = 2, high = 1, low = 1, cve = 1, s3 = 1, new = 2.
C13_StatisticsCountStoredAlerts ==
    \A r \in Requests :
        reqs[r].op = "getStatistics" /\ Returned(r) =>
            LET st == reqs[r].ret[1] IN
            /\ st.total = Len(alerts)
            /\ st.new = NumberWith("status", "New")
            /\ st.acknowledged = NumberWith("status", "Acknowledged")
            /\ st.inProgress = NumberWith("status", "In-Progress")
            /\ st.resolved = NumberWith("status", "Resolved")
            /\ st.bySeverity.high = NumberWith("severity", "High")
            /\ st.bySeverity.medium = NumberWith("severity", "Medium")
            /\ st.bySeverity.low = NumberWith("severity", "Low")
            /\ st.byCategory.cve = NumberWith("category", "CVE")
            /\ st.byCategory.s3 = NumberWith("category", "S3")
            /\ st.byCategory.iam = NumberWith("category", "IAM")
            /\ st.byCategory.network = NumberWith("category", "Network")
            /\ st.byCategory.activity = NumberWith("category", "Activity")
            /\ alerts = <<>> =>
                /\ st.total = 0 /\ st.new = 0 /\ st.acknowledged = 0
                /\ st.inProgress = 0 /\ st.resolved = 0
                /\ \A k \in DOMAIN st.bySeverity : st.bySeverity[k] = 0
                /\ \A k \in DOMAIN st.byCategory : st.byCategory[k] = 0
            /\ OneHighCveOneLowS3 =>
                /\ st.total = 2 /\ st.new = 2
                /\ st.bySeverity.high = 1 /\ st.bySeverity.low = 1
                /\ st.byCategory.cve = 1 /\ st.byCategory.s3 = 1

\* getStatistics has returned after one High CVE and one Low S3 alert were
\* created on an empty store
C13_Witness ==
    \E r \in Requests :
        /\ reqs[r].op = "getStatistics" /\ Returned(r)
        /\ OneHighCveOneLowS3
        /\ Len(audit) = 2
        /\ \A i \in DOMAIN audit : audit[i].action = "ALERT_CREATED"
        /\ reqs[r].ret[1].total = 2 /\ reqs[r].ret[1].bySeverity.high = 1

\* --------------------------------------------------------------------- C14

\* a getStatistics call has written no audit entry
C14_NoAuditEntry ==
    \A r \in Requests :
        reqs[r].op = "getStatistics" => EntriesOf(reqs[r].call) = {}

\* every step of a getStatistics call leaves both collections as they were
C14_Frame ==
    \A r \in Requests :
        reqs'[r].op = "getStatistics" /\ reqs'[r] # reqs[r]
        => alerts' = alerts /\ audit' = audit

\* C14: getStatistics changes neither the stored alerts nor the audit log,
\* whether it returns or throws.
C14_StatisticsHasNoSideEffects ==
    []C14_NoAuditEntry /\ [][C14_Frame]_vars

\* getStatistics has thrown on a store and an audit log that are not empty
C14_Witness ==
    \E r \in Requests :
        /\ reqs[r].op = "getStatistics" /\ Raised(r)
        /\ reqs[r].error = PersistenceError
        /\ alerts # <<>> /\ audit # <<>>

\* --------------------------------------------------------------------- C15

\* the filter properties that carry a value
PresentIn(filter) ==
    {f \in {"severity", "status", "category"} :
        filter[f] # Undefined /\ filter[f] # ""}

\* the positions of the stored alerts that agree with the filter on every
\* property it carries
MatchesOf(filter) ==
    {i \in DOMAIN alerts : \A f \in PresentIn(filter) : alerts[i][f] = filter[f]}

\* the filter asks for a value outside the enumeration of its property
AsksIllegalValue(filter) ==
    \/ "severity" \in PresentIn(filter) /\ filter.severity \notin LegalSeverities
    \/ "status" \in PresentIn(filter) /\ filter.status \notin LegalStatuses
    \/ "category" \in PresentIn(filter) /\ filter.category \notin LegalCategories

\* what getAlerts returns, and that it throws only when the store does
C15_ReturnsTheMatches ==
    \A r \in Requests :
        /\ reqs[r].op = "getAlerts" /\ Returned(r) =>
            /\ Range(reqs[r].ret) = {alerts[i] : i \in MatchesOf(reqs[r].filter)}
            /\ Len(reqs[r].ret) = Cardinality(MatchesOf(reqs[r].filter))
            /\ PresentIn(reqs[r].filter) = {} => reqs[r].ret = alerts
            /\ AsksIllegalValue(reqs[r].filter) => reqs[r].ret = <<>>
        /\ reqs[r].op = "getAlerts" /\ Raised(r) =>
            reqs[r].error = PersistenceError
        /\ reqs[r].op = "getAlerts" => EntriesOf(reqs[r].call) = {}

\* every step of a getAlerts call leaves both collections as they were
C15_Frame ==
    \A r \in Requests :
        reqs'[r].op = "getAlerts" /\ reqs'[r] # reqs[r]
        => alerts' = alerts /\ audit' = audit

\* C15: getAlerts returns exactly the stored alerts that agree with every
\* property the filter carries, all of them for an empty filter, an empty list
\* and no error when nothing matches or a value is outside the enumeration,
\* and changes neither the repository nor the audit log.
C15_GetAlertsFilters ==
    []C15_ReturnsTheMatches /\ [][C15_Frame]_vars

\* a filter on two properties has picked one of several stored alerts
C15_Witness ==
    \E r \in Requests :
        /\ reqs[r].op = "getAlerts" /\ Returned(r)
        /\ reqs[r].filter = Filter(Undefined, "New", "CVE")
        /\ Len(alerts) = 2
        /\ \A i \in DOMAIN alerts : alerts[i].status = "New"
        /\ Len(reqs[r].ret) = 1
        /\ reqs[r].ret[1].category = "CVE"

\* --------------------------------------------------------------------- C16

\* the operations that write to the audit log
LoggedOps == {"createAlert", "updateAlertStatus", "deleteAlert"}

\* the step in which auditLogManager.log settles: after a business success the
\* call returns and the repository keeps the effect; in the catch block the
\* error thrown to the caller is the one that was caught
C16_LogStep ==
    \A r \in Requests :
        /\ reqs[r].op \in LoggedOps /\ reqs[r].pc = "log" /\ reqs'[r] # reqs[r]
           => /\ reqs'[r].pc = "returned"
              /\ reqs'[r].error = ""
              /\ alerts' = alerts
        /\ reqs[r].op \in LoggedOps /\ reqs[r].pc = "catch" /\ reqs'[r] # reqs[r]
           => /\ reqs'[r].pc = "raised"
              /\ reqs'[r].error = reqs[r].error
              /\ alerts' = alerts

\* a call whose audit insert failed has its success result, or a business error
C16_OutcomeDespiteAuditFailure ==
    \A r \in Requests :
        LET q == reqs[r] IN
        q.op \in LoggedOps /\ ~q.audited /\ q.pc \in {"returned", "raised"} =>
            /\ EntriesOf(q.call) = {}
            /\ Returned(r) /\ q.op = "createAlert" => q.alert[1] \in Range(alerts)
            /\ Returned(r) /\ q.op = "updateAlertStatus" =>
                q.ret = findById(alerts, q.alertId)
            /\ Returned(r) /\ q.op = "deleteAlert" => q.ret = <<TRUE>>
            /\ Raised(r) =>
                \/ q.error \in ValidationErrors
                \/ q.error \in {AlertIdRequired, NewStatusRequired, PersistenceError}
                \/ IsNotFoundError(q.error)
                \/ IsInvalidTransitionError(q.error)

\* C16: a failed audit insert never changes the outcome of createAlert,
\* updateAlertStatus or deleteAlert: after a business success the call still
\* returns and its repository effect stays; after a business failure the caller
\* gets the business error.
C16_AuditFailureKeepsOutcome ==
    []C16_OutcomeDespiteAuditFailure /\ [][C16_LogStep]_vars

\* deleteAlert has returned true and removed the alert although its audit
\* insert failed
C16_Witness ==
    \E r \in Requests :
        /\ reqs[r].op = "deleteAlert" /\ Returned(r) /\ ~reqs[r].audited
        /\ reqs[r].ret = <<TRUE>>
        /\ alerts = <<>> /\ audit = <<>>

\* --------------------------------------------------------------------- C17

\* C17: the audit log is append-only: after every step of every interleaving it
\* is the log before the step with zero or more entries added at its end; in
\* particular deleteAlert removes no entry of the alert it deletes.
C17_AuditLogAppendOnly ==
    [][/\ Len(audit') >= Len(audit)
       /\ SubSeq(audit', 1, Len(audit)) = audit]_vars

\* an alert has been updated and then deleted, and the entry of its update is
\* still in the log, before the entry of its deletion
C17_Witness ==
    \E i, j \in DOMAIN audit :
        /\ i < j
        /\ audit[i].action = "STATUS_UPDATED"
        /\ audit[j].action = "ALERT_DELETED"
        /\ audit[i].alertId = audit[j].alertId
        /\ Matching(alerts, audit[j].alertId) = {}

\* --------------------------------------------------------------------- C18

\* alert b is alert a with at most its status and updatedAt changed
SameButStatus(a, b) ==
    b = [a EXCEPT !.status = b.status, !.updatedAt = b.updatedAt]

\* the step appends the alert a createAlert call is saving
IsSave ==
    \E r \in Requests :
        /\ reqs[r].op = "createAlert" /\ reqs[r].pc = "save"
        /\ alerts' = Append(alerts, reqs[r].alert[1])

\* the step removes one alert, whose id a deleteAlert call was given
IsDelete ==
    \E r \in Requests, i \in DOMAIN alerts :
        /\ reqs[r].op = "deleteAlert" /\ reqs[r].pc = "deleteOne"
        /\ alerts[i].id = reqs[r].alertId
        /\ alerts' = Without(alerts, i)

\* the step changes the status and updatedAt of one alert, whose id an
\* updateAlertStatus call was given, and nothing else
IsStatusUpdate ==
    \E r \in Requests, i \in DOMAIN alerts :
        /\ reqs[r].op = "updateAlertStatus" /\ reqs[r].pc = "updateOne"
        /\ alerts[i].id = reqs[r].alertId
        /\ Len(alerts') = Len(alerts)
        /\ SameButStatus(alerts[i], alerts'[i])
        /\ alerts'[i].status = reqs[r].newStatus
        /\ \A j \in DOMAIN alerts : j # i => alerts'[j] = alerts[j]

\* C18: a stored alert keeps its id, severity, category, description and
\* createdAt for as long as it exists: updateAlertStatus changes only the status
\* and updatedAt of the alert with the given id, every other alert is left as it
\* is, and the only other changes to the store are a createAlert adding an alert
\* and a deleteAlert removing one.
C18_OnlyStatusAndUpdatedAtChange ==
    [][alerts' = alerts \/ IsSave \/ IsDelete \/ IsStatusUpdate]_vars

\* an update has returned: the alert it named has a new status and a refreshed
\* updatedAt and is otherwise as it was stored, and the other alert is as it was
C18_Witness ==
    \E r \in Requests :
        /\ reqs[r].op = "updateAlertStatus" /\ Returned(r)
        /\ reqs[r].alertId = SeedId
        /\ Len(alerts) = 2
        /\ alerts[1].id = SeedId /\ alerts[1].status = "Acknowledged"
        /\ alerts[1].updatedAt # SeedAlert("New").updatedAt
        /\ SameButStatus(SeedAlert("New"), alerts[1])
        /\ alerts[2] = OtherAlert

\* --------------------------------------------------------------------- C19

FailureActions ==
    {"ALERT_CREATION_FAILED", "STATUS_UPDATE_FAILED", "ALERT_DELETION_FAILED"}

\* the call of slot r has written a failure entry carrying its error
HasFailureEntry(r) ==
    \E i \in EntriesOf(reqs[r].call) :
        /\ audit[i].action \in FailureActions
        /\ audit[i].error = reqs[r].error

\* once a call has failed it makes no further repository call: it is in its
\* catch block or has thrown
C19_NoRetry ==
    \A r \in Requests :
        reqs[r].error # "" /\ reqs'[r].call = reqs[r].call
        => reqs'[r].pc \in {"catch", "raised"} /\ reqs'[r].error = reqs[r].error

\* C19 as stated: whenever any of the six operations has thrown and no audit
\* insert of the call failed, a failure entry of that call is in the log.
C19_EveryOperationLogsItsFailure ==
    \A r \in Requests :
        Raised(r) /\ reqs[r].audited => HasFailureEntry(r)

\* the state part of the amended claim
C19_WritersLogReadersDoNot ==
    \A r \in Requests :
        Raised(r) =>
            IF reqs[r].op \in LoggedOps
            THEN reqs[r].audited =>
                    /\ HasFailureEntry(r)
                    /\ Cardinality(EntriesOf(reqs[r].call)) = 1
            ELSE EntriesOf(reqs[r].call) = {}

\* C19 amended: createAlert, updateAlertStatus and deleteAlert throw only after
\* writing, when the audit insert succeeds, one failure entry carrying the
\* error; getAlerts, getAlertById and getStatistics rethrow without writing an
\* audit entry; no failed call goes back to the repository.
C19_WritingOperationsLogTheirFailure ==
    []C19_WritersLogReadersDoNot /\ [][C19_NoRetry]_vars

\* updateAlertStatus has thrown a store failure after logging it
C19_Witness ==
    \E r \in Requests :
        /\ reqs[r].op = "updateAlertStatus" /\ Raised(r) /\ reqs[r].audited
        /\ reqs[r].error = PersistenceError
        /\ HasFailureEntry(r)

\* --------------------------------------------------------------------- C20

\* the kind of failure an error message stands for
ErrorKind(e) ==
    IF IsNotFoundError(e) THEN "not-found"
    ELSE IF IsInvalidTransitionError(e) THEN "invalid-transition"
    ELSE IF e = PersistenceError THEN "persistence"
    ELSE "validation"

\* C20: on every route a validation or invalid-transition error is answered
\* with a 4xx status, a not-found error with 404, and a store failure with a
\* 5xx status.
C20_ResponseByErrorKind ==
    \A r \in Requests :
        Raised(r) =>
            LET code == responseStatus(reqs[r].op, TRUE)
                kind == ErrorKind(reqs[r].error)
            IN /\ kind \in {"validation", "invalid-transition"} =>
                    code \in 400..499
               /\ kind = "not-found" => code = 404
               /\ kind = "persistence" => code \in 500..599

\* --------------------------------------------------------------------- C21

\* an updateAlertStatus whose write ran when no alert had its id does not
\* return (its read-back gives an absent alert) and writes no STATUS_UPDATED
\* entry
C21_NoSuccessOnDeletedAlert ==
    \A r \in Requests :
        reqs[r].op = "updateAlertStatus" /\ ~reqs[r].matched =>
            /\ ~Returned(r)
            /\ \A i \in EntriesOf(reqs[r].call) : audit[i].action # "STATUS_UPDATED"

\* the write of an updateAlertStatus adds no alert to the store
C21_NotRecreated ==
    \A r \in Requests :
        reqs[r].op = "updateAlertStatus" /\ reqs[r].pc = "updateOne"
        /\ reqs'[r] # reqs[r]
        => Len(alerts') = Len(alerts)
           /\ (Matching(alerts, reqs[r].alertId) = {} => alerts' = alerts)

\* C21: when deleteAlert removes the alert between the steps of a concurrent
\* updateAlertStatus on the same id, the update never reports success for the
\* deleted alert: it writes no STATUS_UPDATED entry and does not return an
\* absent alert, and its late write does not re-create the alert.
C21_UpdateNeverSucceedsOnDeletedAlert ==
    /\ []C21_NoSuccessOnDeletedAlert
    /\ [][C21_NotRecreated]_vars

\* --------------------------------------------------------------------- C22

\* an updateAlertStatus that found its alert and is failing has left the alert
\* as it found it
C22_FailedUpdateLeftAlertAsFound ==
    \A r \in Requests :
        /\ reqs[r].op = "updateAlertStatus" /\ Failing(r)
        /\ reqs[r].currentAlert # <<>>
        => findById(alerts, reqs[r].alertId) = reqs[r].currentAlert

\* a step after which an updateAlertStatus is failing has not changed the store
C22_FailingStepWritesNothing ==
    \A r \in Requests :
        /\ reqs'[r].op = "updateAlertStatus" /\ Failing(r)'
        /\ reqs'[r] # reqs[r]
        => alerts' = alerts

\* C22: with no other operation running, whenever updateAlertStatus raises an
\* error - missing argument, not-found, invalid transition, or a store failure
\* at any repository step, the read-back findById included - the alert's
\* persisted status and updatedAt are as before the call, so no
\* STATUS_UPDATE_FAILED entry stands for a call that changed the status.
C22_FailedUpdateChangesNothing ==
    []C22_FailedUpdateLeftAlertAsFound /\ [][C22_FailingStepWritesNothing]_vars

\* --------------------------------------------------------------------- C23

\* the ALERT_DELETED entries of alert x
DeletionsOf(x) ==
    {i \in DOMAIN audit : audit[i].action = "ALERT_DELETED" /\ audit[i].alertId = x}

\* the deleteAlert calls on x that have finished, and those that returned
FinishedDeletes(x) ==
    {r \in Requests : /\ reqs[r].op = "deleteAlert" /\ reqs[r].alertId = x
                      /\ reqs[r].pc \in {"returned", "raised"}}

\* C23: for each alert id at most one deleteAlert call succeeds and at most one
\* ALERT_DELETED entry is ever written, also when the calls run concurrently;
\* every other deleteAlert call on the id fails with a not-found error.
C23_AtMostOneDeleteSucceeds ==
    \A x \in issued :
        /\ Cardinality(DeletionsOf(x)) <= 1
        /\ Cardinality({r \in FinishedDeletes(x) : Returned(r)}) <= 1
        /\ \A r \in FinishedDeletes(x) :
            Raised(r) => IsNotFoundError(reqs[r].error)

\* --------------------------------------------------------------------- C24

\* the positions of the audit entries of alert x with the given action
PositionsOf(x, action) ==
    {i \in DOMAIN audit : audit[i].action = action /\ audit[i].alertId = x}

\* C24: in the audit log the ALERT_CREATED entry of an id precedes every
\* STATUS_UPDATED and ALERT_DELETED entry of that id, and no STATUS_UPDATED
\* entry of an id follows an ALERT_DELETED entry of it, in every interleaving.
C24_AuditOrderPerAlert ==
    \A i \in DOMAIN audit :
        LET x == audit[i].alertId IN
        /\ audit[i].action \in {"STATUS_UPDATED", "ALERT_DELETED"} =>
            \A c \in PositionsOf(x, "ALERT_CREATED") : c < i
        /\ audit[i].action = "STATUS_UPDATED" =>
            \A d \in PositionsOf(x, "ALERT_DELETED") : i < d

\* --------------------------------------------------------------------- C25

\* the sum of the four status counts, of the three severity counts and of the
\* five category counts of a stats object
StatusSum(st) == st.new + st.acknowledged + st.inProgress + st.resolved

SeveritySum(st) == st.bySeverity.high + st.bySeverity.medium + st.bySeverity.low

CategorySum(st) ==
    st.byCategory.cve + st.byCategory.s3 + st.byCategory.iam
        + st.byCategory.network + st.byCategory.activity

SelfConsistent(st) ==
    /\ st.total = StatusSum(st)
    /\ st.total = SeveritySum(st)
    /\ st.total = CategorySum(st)

\* the getStatistics calls that have returned their stats object
ReturnedStatistics ==
    {r \in Requests : reqs[r].op = "getStatistics" /\ Returned(r)}

\* C25: in every reachable state the statistics are self-consistent: total
\* equals new + acknowledged + inProgress + resolved, equals the sum of the
\* three bySeverity counts and equals the sum of the five byCategory counts,
\* for the statistics of the store as it stands and for every stats object a
\* getStatistics call returned.
C25_StatisticsSelfConsistent ==
    /\ SelfConsistent(stats(findAll(alerts, NoFilter)))
    /\ \A r \in ReturnedStatistics : SelfConsistent(reqs[r].ret[1])

\* getStatistics returned on a store of two alerts, one left by an earlier
\* request and moved on from New, one created by this behaviour, of different
\* severity and category
C25_Witness ==
    \E r \in ReturnedStatistics :
        LET st == reqs[r].ret[1] IN
        /\ st.total = 2
        /\ st.new = 1
        /\ st.bySeverity.low = 1
        /\ st.byCategory.network = 1

=============================================================================
